---- MODULE Spec2Model ----
(***************************************************************************)
(* State-machine model of the cloud synchronisation engine of              *)
(* src/scripts/components/sync/Sync.js (class Sync).                       *)
(*                                                                         *)
(* One action stands for one macrotask of the JavaScript event loop: an    *)
(* externally invoked method, a timer callback, or the settlement of one   *)
(* promise of the Local Store or of the Cloud Adapter together with every  *)
(* continuation (microtask) that the settlement releases.                  *)
(***************************************************************************)
EXTENDS Integers, Sequences, FiniteSets, TLC

\* ---------------------------------------------------------------- bounds
MaxIds == 2
MaxTime == 2
MaxInFlight == 2

\* ------------------------------------------------------ program constants
IntervalInit == 2000
IntervalMax == 15000
IntervalMin == 2000
StartDelay == 500

collectionNames == <<"Notes", "Notebooks", "Tags", "Files">>

Collections == 1..Len(collectionNames)
Ids == 1..MaxIds
\* The `updated` stamp of a record; 0 stands for "no record with that id".
Times == 0..MaxTime
Slots == 1..MaxInFlight
NoRecords == [i \in Ids |-> 0]
IdSeq == [i \in 1..MaxIds |-> i]

VARIABLES
    localStore,   \* Local Store: collection -> id -> updated (0: absent)
    remoteStore,  \* Cloud Adapter's storage: collection -> id -> updated
    stat,         \* this.stat: interval, intervalMax, intervalMin, statRemote
    timeout,      \* this.timeout: handle of the last timer set (0: undefined)
    timers,       \* timers pending in the event loop: {[id, delay]}
    pass,         \* per pass slot: position and data of the running sync()
    log,          \* per pass slot: what the pass in it has emitted and received;
                  \* kept whole for one step after the pass has ended, then
                  \* cut to its stop signal
    upserts,      \* unsettled saveModelObject requests {[p, c, id, updated]}
    saves,        \* unsettled cloud.saveModel requests {[p, c, id, updated]}
    initPc,       \* position of init(): "new", "auth" (awaiting checkAuth),
                  \* "done" (returned from start()), "failed" (returned after
                  \* logging the failed authentication)
    halted        \* the last stopWatch()/disconnect() since start(): by, at

vars == <<localStore, remoteStore, stat, timeout, timers, pass, log,
          upserts, saves, initPc, halted>>

MaxOf(a, b) == IF a >= b THEN a ELSE b
MinOf(a, b) == IF a <= b THEN a ELSE b

Ev(e, c, i, v) == [e |-> e, c |-> c, id |-> i, updated |-> v]
Req(p, c, i, v) == [p |-> p, c |-> c, id |-> i, updated |-> v]

IdlePass == [pc |-> "idle", ci |-> 0, files |-> NoRecords,
             collection |-> NoRecords]

InFlight(p) == pass[p].pc # "idle"

\* The engine's mutable state as one value, so that the methods of the class
\* can be written as functions from state to state and composed.
\* A method computes its argument once: its body is run(T) for the one T
\* that is the value of the state it is given.
Cur == [pass |-> pass, log |-> log, upserts |-> upserts, saves |-> saves,
        stat |-> stat, timers |-> timers, timeout |-> timeout]

\* The log of a pass that ended before this step is cut to its last event.
Aged(L) ==
    [p \in Slots |->
        IF pass[p].pc = "idle" /\ L[p] = log[p] /\ Len(L[p]) > 1
        THEN <<L[p][Len(L[p])]>>
        ELSE L[p]]

\* The engine's state becomes S (bound to T so that it is computed once).
Apply(S) ==
    \E T \in {S} :
        /\ pass' = T.pass
        /\ log' = Aged(T.log)
        /\ upserts' = T.upserts
        /\ saves' = T.saves
        /\ stat' = T.stat
        /\ timers' = T.timers
        /\ timeout' = T.timeout

\* ------------------------------------------------------------- scheduler

\* Mutant of stopWatch: the guard inverted, so a held handle is never cleared.
stopWatch_GuardInverted(S) ==
    IF S.timeout = 0
    THEN [S EXCEPT !.timers = {t \in S.timers : t.id # S.timeout}]
    ELSE S

\* Mutant of stopWatch: the pending timer is left alone.
stopWatch_NoClear(S) == S

\* stopWatch(): clearTimeout(this.timeout) when a handle is held.
stopWatch(S) ==
    IF S.timeout # 0
    THEN [S EXCEPT !.timers = {t \in S.timers : t.id # S.timeout}]
    ELSE S

\* The handle setTimeout returns: one no pending timer has.
FreshHandle(ts) ==
    CHOOSE h \in 1..(Cardinality(ts) + 1) :
        /\ \A t \in ts : t.id # h
        /\ \A g \in 1..(h - 1) : \E t \in ts : t.id = g

\* this.timeout = setTimeout(() => this.sync(), d)
setTimeout(S0, d) ==
    LET run(S) ==
            LET h == FreshHandle(S.timers)
            IN  [S EXCEPT !.timers = @ \cup {[id |-> h, delay |-> d]}, !.timeout = h]
    IN  CHOOSE R \in {run(T) : T \in {S0}} : TRUE

\* Mutant of start: start() also puts stat.interval back to its first value.
start_ResetsInterval(S) ==
    setTimeout([stopWatch(S) EXCEPT !.stat.interval = IntervalInit], StartDelay)

\* start()
start(S) == setTimeout(stopWatch(S), StartDelay)

\* Mutant of getInterval: Math.max(intervalMin, ...) left out.
getInterval_NoFloor(st) ==
    LET range == st.intervalMax - st.intervalMin
        moved == IF st.statRemote
                 THEN st.interval - ((range * 4) \div 10)
                 ELSE st.interval + ((range * 2) \div 10)
    IN  [st EXCEPT !.interval = MinOf(st.intervalMax, moved)]

\* Mutant of getInterval: the two factors exchanged.
getInterval_FactorsSwapped(st) ==
    LET range == st.intervalMax - st.intervalMin
        moved == IF st.statRemote
                 THEN st.interval - ((range * 2) \div 10)
                 ELSE st.interval + ((range * 4) \div 10)
    IN  [st EXCEPT !.interval =
            MinOf(st.intervalMax, MaxOf(st.intervalMin, moved))]

\* getInterval(): the new this.stat; its interval field is the value returned.
getInterval(st) ==
    LET range == st.intervalMax - st.intervalMin
        moved == IF st.statRemote
                 THEN st.interval - ((range * 4) \div 10)
                 ELSE st.interval + ((range * 2) \div 10)
        atLeast == MaxOf(st.intervalMin, moved)
        atMost == MinOf(st.intervalMax, atLeast)
    IN  [st EXCEPT !.interval = atMost]

\* startWatch()
startWatch(S0) ==
    LET run(S) ==
            LET S1 == stopWatch(S)
                st == getInterval(S1.stat)
            IN  setTimeout([S1 EXCEPT !.stat = st], st.interval)
    IN  CHOOSE R \in {run(T) : T \in {S0}} : TRUE

\* ------------------------------------------------------------------ pass

Emit(S, p, ev) == [S EXCEPT !.log[p] = Append(@, ev)]

\* Mutant of Orphan: a join that has rejected still reacts to its requests.
Orphan_StillJoined(rs, p) == rs

\* Requests of pass p that are still unsettled when the pass ends stay with
\* the store or the adapter; they no longer belong to any pass (p = 0).
Orphan(rs, p) == {IF r.p = p THEN [r EXCEPT !.p = 0] ELSE r : r \in rs}

\* Mutant of passSucceeded: the .then branch does not call startWatch().
passSucceeded_NoRearm(S, p) ==
    LET S1 == Emit(S, p, Ev("stop:success", 0, 0, 0))
    IN  [S1 EXCEPT !.pass[p] = IdlePass]

\* sync(), the .then branch: every collection was synchronised.
passSucceeded(S0, p) ==
    LET run(S) ==
            LET S1 == Emit(S, p, Ev("stop:success", 0, 0, 0))
                S2 == [S1 EXCEPT !.pass[p] = IdlePass]
            IN  startWatch(S2)
    IN  CHOOSE R \in {run(T) : T \in {S0}} : TRUE

\* Mutant of passFailed: the .catch branch does not trigger 'stop'.
passFailed_Silent(S, p) ==
    [S EXCEPT !.pass[p] = IdlePass,
              !.upserts = Orphan(@, p),
              !.saves = Orphan(@, p)]

\* sync(), the .catch branch: some collection rejected.
passFailed(S0, p) ==
    LET run(S) ==
            LET S1 == Emit(S, p, Ev("stop:error", 0, 0, 0))
            IN  [S1 EXCEPT !.pass[p] = IdlePass,
                           !.upserts = Orphan(@, p),
                           !.saves = Orphan(@, p)]
    IN  CHOOSE R \in {run(T) : T \in {S0}} : TRUE

\* A rejection reaches the pass: every await and .then up to the .catch of
\* sync() is skipped.
rejected(S, p, what, c, i) == passFailed(Emit(S, p, Ev(what, c, i, 0)), p)

\* syncCollection(name) up to its first await: the local listing is requested.
syncCollection(S0, p, c) ==
    LET run(S) ==
            LET S1 == [S EXCEPT !.pass[p] = [pc |-> "findLocal", ci |-> c,
                                             files |-> NoRecords,
                                             collection |-> NoRecords]]
            IN  Emit(S1, p, Ev("find", c, 0, 0))
    IN  CHOOSE R \in {run(T) : T \in {S0}} : TRUE

\* sync(): the promise chain over collectionNames moves to the next name.
nextCollection(S0, p) ==
    LET run(S) ==
            IF S.pass[p].ci < Len(collectionNames)
            THEN syncCollection(S, p, S.pass[p].ci + 1)
            ELSE passSucceeded(S, p)
    IN  CHOOSE R \in {run(T) : T \in {S0}} : TRUE

\* The ids of `ids` in the order the listings are iterated.
InOrder(ids) == SelectSeq(IdSeq, LAMBDA i : i \in ids)

AppendAll(S, p, evs) == [S EXCEPT !.log[p] = @ \o evs]

\* Mutant of RemoteWins: a file without a local model is not saved.
RemoteWins_NoCreate(model, file) == file # 0 /\ model # 0 /\ model < file

\* Mutant of RemoteWins: <= for <.
RemoteWins_OrEqual(model, file) == file # 0 /\ (model = 0 \/ model <= file)

\* Mutant of RemoteWins: only files without a local model are saved.
RemoteWins_CreateOnly(model, file) == file # 0 /\ model = 0

\* syncRemoteChanges: the condition under which a remote file is saved locally.
RemoteWins(model, file) == file # 0 /\ (model = 0 \/ model < file)

\* Mutant of LocalWins: a model without a remote file is not saved.
LocalWins_NoCreate(file, model) == model # 0 /\ file # 0 /\ file < model

\* syncLocalChanges: the condition under which a local model is saved remotely.
LocalWins(file, model) == model # 0 /\ (file = 0 \/ file < model)

\* syncLocalChanges and what follows its Promise.all.
syncLocalChanges(S0, p) ==
    LET run(S) ==
            LET ps == S.pass[p]
                ids == {i \in Ids : LocalWins(ps.files[i], ps.collection[i])}
                ord == InOrder(ids)
                evs == [k \in 1..Len(ord) |->
                            Ev("save", ps.ci, ord[k], ps.collection[ord[k]])]
                new == {Req(p, ps.ci, i, ps.collection[i]) : i \in ids}
                S1 == AppendAll([S EXCEPT !.saves = @ \cup new], p, evs)
            IN  IF ids = {}
                THEN nextCollection(S1, p)
                ELSE [S1 EXCEPT !.pass[p].pc = "localJoin"]
    IN  CHOOSE R \in {run(T) : T \in {S0}} : TRUE

\* syncRemoteChanges and what follows its Promise.all.
syncRemoteChanges(S0, p) ==
    LET run(S) ==
            LET ps == S.pass[p]
                ids == {i \in Ids : RemoteWins(ps.collection[i], ps.files[i])}
                ord == InOrder(ids)
                evs == [k \in 1..Len(ord) |->
                            Ev("upsert", ps.ci, ord[k], ps.files[ord[k]])]
                new == {Req(p, ps.ci, i, ps.files[i]) : i \in ids}
                S1 == AppendAll([S EXCEPT !.upserts = @ \cup new,
                                          !.stat.statRemote = (ids # {}) \/ @], p, evs)
            IN  IF ids = {}
                THEN syncLocalChanges(S1, p)
                ELSE [S1 EXCEPT !.pass[p].pc = "remoteJoin"]
    IN  CHOOSE R \in {run(T) : T \in {S0}} : TRUE

\* sync() up to its first suspension.
sync(S0, p) ==
    LET run(S) ==
            LET S1 == [S EXCEPT !.log[p] = <<Ev("start", 0, 0, 0)>>,
                                !.stat.statRemote = FALSE]
            IN  syncCollection(S1, p, 1)
    IN  CHOOSE R \in {run(T) : T \in {S0}} : TRUE

\* ----------------------------------------------------------------- actions

\* What the engine is doing when stopWatch() or disconnect() is called.
EngineState ==
    IF \E p \in Slots : InFlight(p) THEN "running"
    ELSE IF timers # {} THEN "pending"
    ELSE "idle"

NotHalted == [by |-> "none", at |-> "none"]

\* init() is called: cloud.checkAuth() is awaited.
InitCall ==
    /\ initPc = "new"
    /\ initPc' = "auth"
    /\ log' = Aged(log)
    /\ UNCHANGED <<localStore, remoteStore, stat, timeout, timers, pass,
                   upserts, saves, halted>>

\* checkAuth() resolves to true: init() calls start().
AuthOk ==
    /\ initPc = "auth"
    /\ initPc' = "done"
    /\ Apply(start(Cur))
    /\ halted' = NotHalted
    /\ UNCHANGED <<localStore, remoteStore>>

\* Mutant of AuthFail: init() calls start() whatever checkAuth() answers.
AuthFail_Starts ==
    /\ initPc = "auth"
    /\ initPc' = "failed"
    /\ Apply(start(Cur))
    /\ UNCHANGED <<localStore, remoteStore, halted>>

\* checkAuth() resolves to false or rejects: init() only logs.
AuthFail ==
    /\ initPc = "auth"
    /\ initPc' = "failed"
    /\ log' = Aged(log)
    /\ UNCHANGED <<localStore, remoteStore, stat, timeout, timers, pass,
                   upserts, saves, halted>>

\* start() invoked through the radio channel.
Start ==
    /\ Apply(start(Cur))
    /\ halted' = NotHalted
    /\ UNCHANGED <<localStore, remoteStore, initPc>>

\* stopWatch() invoked from outside.
StopWatch ==
    /\ Apply(stopWatch(Cur))
    /\ halted' = [by |-> "stopWatch", at |-> EngineState]
    /\ UNCHANGED <<localStore, remoteStore, initPc>>

\* disconnect() invoked through the radio channel.
Disconnect ==
    /\ Apply(stopWatch(Cur))
    /\ halted' = [by |-> "disconnect", at |-> EngineState]
    /\ UNCHANGED <<localStore, remoteStore, initPc>>

\* A pending timer expires and its callback runs sync(); the pass takes the
\* first free slot.
TimerFire(p) ==
    /\ ~InFlight(p)
    /\ \A q \in Slots : q < p => InFlight(q)
    /\ \E t \in timers :
          Apply(sync([Cur EXCEPT !.timers = @ \ {t}], p))
    /\ UNCHANGED <<localStore, remoteStore, initPc, halted>>

\* The records of a listing as log events, in listing order.
Listing(e, c, recs) ==
    LET ord == InOrder({i \in Ids : recs[i] # 0})
    IN  [k \in 1..Len(ord) |-> Ev(e, c, ord[k], recs[ord[k]])]

\* The local listing of the collection arrives; cloud.find is requested.
LocalFindResolve(p) ==
    /\ pass[p].pc = "findLocal"
    /\ LET c == pass[p].ci
           S1 == [Cur EXCEPT !.pass[p].collection = localStore[c],
                             !.pass[p].pc = "findRemote"]
           S2 == AppendAll(S1, p, Listing("model", c, localStore[c]))
       IN  Apply(Emit(S2, p, Ev("cloudFind", c, 0, 0)))
    /\ UNCHANGED <<localStore, remoteStore, initPc, halted>>

LocalFindReject(p) ==
    /\ pass[p].pc = "findLocal"
    /\ Apply(rejected(Cur, p, "rejected:find", pass[p].ci, 0))
    /\ UNCHANGED <<localStore, remoteStore, initPc, halted>>

\* The remote listing arrives; syncRemoteChanges runs.
CloudFindResolve(p) ==
    /\ pass[p].pc = "findRemote"
    /\ LET c == pass[p].ci
           S1 == [Cur EXCEPT !.pass[p].files = remoteStore[c]]
           S2 == AppendAll(Emit(S1, p, Ev("files", c, 0, 0)), p,
                           Listing("file", c, remoteStore[c]))
       IN  Apply(syncRemoteChanges(S2, p))
    /\ UNCHANGED <<localStore, remoteStore, initPc, halted>>

CloudFindReject(p) ==
    /\ pass[p].pc = "findRemote"
    /\ Apply(rejected(Cur, p, "rejected:cloudFind", pass[p].ci, 0))
    /\ UNCHANGED <<localStore, remoteStore, initPc, halted>>

\* The Local Store's upsert and the Cloud Adapter's write: the record is
\* stored as it was sent, `updated` included.
saveModelObject(store, r) == [store EXCEPT ![r.c][r.id] = r.updated]
saveModel(store, r) == [store EXCEPT ![r.c][r.id] = r.updated]

\* Mutant of UpsertApplied: the join resolves with the first request that
\* resolves (Promise.race for Promise.all).
UpsertApplied_First(S, r, reflect) ==
    LET S1 == [S EXCEPT !.upserts = @ \ {r}]
    IN  IF r.p # 0 THEN syncLocalChanges(S1, r.p) ELSE S1

\* The Promise.all of syncRemoteChanges after request r resolved; `reflect`
\* says whether the collection object the pass holds shows the saved record.
UpsertApplied(S, r, reflect) ==
    LET S1 == [S EXCEPT !.upserts = @ \ {r}]
        S2 == IF r.p # 0 /\ reflect
              THEN [S1 EXCEPT !.pass[r.p].collection[r.id] = r.updated]
              ELSE S1
    IN  IF r.p # 0 /\ ~\E o \in S2.upserts : o.p = r.p
        THEN syncLocalChanges(S2, r.p)
        ELSE S2

\* The Local Store resolves a saveModelObject request.
UpsertResolve(r, reflect) ==
    /\ r \in upserts
    /\ r.p = 0 => ~reflect
    /\ localStore' = saveModelObject(localStore, r)
    /\ Apply(UpsertApplied(Cur, r, reflect))
    /\ UNCHANGED <<remoteStore, initPc, halted>>

\* The Local Store rejects a saveModelObject request.
UpsertReject(r) ==
    /\ r \in upserts
    /\ LET S1 == [Cur EXCEPT !.upserts = @ \ {r}]
       IN  Apply(IF r.p # 0
                 THEN rejected(S1, r.p, "rejected:upsert", r.c, r.id)
                 ELSE S1)
    /\ UNCHANGED <<localStore, remoteStore, initPc, halted>>

\* Mutant of SaveApplied: the join resolves with the first request that
\* resolves.
SaveApplied_First(S, r) ==
    LET S1 == [S EXCEPT !.saves = @ \ {r}]
    IN  IF r.p # 0 /\ InFlight(r.p) THEN nextCollection(S1, r.p) ELSE S1

\* The Promise.all of syncLocalChanges after request r resolved.
SaveApplied(S, r) ==
    LET S1 == [S EXCEPT !.saves = @ \ {r}]
    IN  IF r.p # 0 /\ ~\E o \in S1.saves : o.p = r.p
        THEN nextCollection(S1, r.p)
        ELSE S1

\* The Cloud Adapter resolves a saveModel request.
SaveResolve(r) ==
    /\ r \in saves
    /\ remoteStore' = saveModel(remoteStore, r)
    /\ Apply(SaveApplied(Cur, r))
    /\ UNCHANGED <<localStore, initPc, halted>>

\* The Cloud Adapter rejects a saveModel request.
SaveReject(r) ==
    /\ r \in saves
    /\ LET S1 == [Cur EXCEPT !.saves = @ \ {r}]
       IN  Apply(IF r.p # 0
                 THEN rejected(S1, r.p, "rejected:save", r.c, r.id)
                 ELSE S1)
    /\ UNCHANGED <<localStore, remoteStore, initPc, halted>>

\* The user creates or edits a record of a local collection.
LocalChange(c, i, t) ==
    /\ t > localStore[c][i]
    /\ localStore' = [localStore EXCEPT ![c][i] = t]
    /\ log' = Aged(log)
    /\ UNCHANGED <<remoteStore, stat, timeout, timers, pass, upserts,
                   saves, initPc, halted>>

\* Another device writes a record to the cloud storage.
RemoteChange(c, i, t) ==
    /\ t > remoteStore[c][i]
    /\ remoteStore' = [remoteStore EXCEPT ![c][i] = t]
    /\ log' = Aged(log)
    /\ UNCHANGED <<localStore, stat, timeout, timers, pass, upserts,
                   saves, initPc, halted>>

\* ------------------------------------------------------------ specifications

EmptyStore == [c \in Collections |-> NoRecords]

\* The state the constructor leaves.
Constructed ==
    /\ stat = [interval |-> IntervalInit, intervalMax |-> IntervalMax,
               intervalMin |-> IntervalMin, statRemote |-> FALSE]
    /\ timeout = 0
    /\ timers = {}
    /\ pass = [p \in Slots |-> IdlePass]
    /\ log = [p \in Slots |-> <<>>]
    /\ upserts = {}
    /\ saves = {}
    /\ initPc = "new"
    /\ halted = NotHalted

PassStep ==
    \/ \E p \in Slots : TimerFire(p)
    \/ \E p \in Slots : LocalFindResolve(p)
    \/ \E p \in Slots : LocalFindReject(p)
    \/ \E p \in Slots : CloudFindResolve(p)
    \/ \E p \in Slots : CloudFindReject(p)
    \/ \E r \in upserts, reflect \in BOOLEAN : UpsertResolve(r, reflect)
    \/ \E r \in upserts : UpsertReject(r)
    \/ \E r \in saves : SaveResolve(r)
    \/ \E r \in saves : SaveReject(r)

\* Spec: the engine under external control.  Both stores start empty; the
\* methods the class exposes are called at any time, in any order; the user
\* and another device create and edit the first record of Notes.
Init ==
    /\ Constructed
    /\ localStore = EmptyStore
    /\ remoteStore = EmptyStore

Next ==
    \/ Start
    \/ StopWatch
    \/ Disconnect
    \/ PassStep
    \/ \E t \in Times : LocalChange(1, 1, t)
    \/ \E t \in Times : RemoteChange(1, 1, t)

Spec == Init /\ [][Next]_vars

\* BootSpec: the engine started by init() alone, one pass at a time, over
\* every content the two sides of one collection can have.
BootInit ==
    /\ Constructed
    /\ \E c \in Collections, l \in [Ids -> Times], r \in [Ids -> Times] :
          /\ localStore = [EmptyStore EXCEPT ![c] = l]
          /\ remoteStore = [EmptyStore EXCEPT ![c] = r]

BootNext ==
    \/ InitCall
    \/ AuthOk
    \/ AuthFail
    \/ PassStep

BootSpec == BootInit /\ [][BootNext]_vars

\* LiveSpec: the engine left to run.  start() is called whenever no timer is
\* pending (also while a pass is in flight), stopWatch() and disconnect() are
\* never called, and every request to the Local Store and to the Cloud
\* Adapter resolves.  The first record of Notes starts in any state on both
\* sides.  A pending
\* timer is cancelled only by a pass that succeeds and arms another in the
\* same step, so weak fairness of TimerFire is what the event loop gives.
LiveInit ==
    /\ Constructed
    /\ \E l \in Times, r \in Times :
          /\ localStore = [EmptyStore EXCEPT ![1][1] = l]
          /\ remoteStore = [EmptyStore EXCEPT ![1][1] = r]

LiveNext ==
    \/ (timers = {} /\ Start)
    \/ \E p \in Slots : TimerFire(p)
    \/ \E p \in Slots : LocalFindResolve(p)
    \/ \E p \in Slots : CloudFindResolve(p)
    \/ \E r \in upserts, reflect \in BOOLEAN : UpsertResolve(r, reflect)
    \/ \E r \in saves : SaveResolve(r)

LiveSpec ==
    /\ LiveInit
    /\ [][LiveNext]_vars
    /\ WF_vars(\E p \in Slots : TimerFire(p))
    /\ WF_vars(\E p \in Slots : LocalFindResolve(p))
    /\ WF_vars(\E p \in Slots : CloudFindResolve(p))
    /\ WF_vars(\E r \in upserts, reflect \in BOOLEAN : UpsertResolve(r, reflect))
    /\ WF_vars(\E r \in saves : SaveResolve(r))

\* ------------------------------------------------------------- properties

\* Reading a pass's log.
At(L, e, c, i) == {k \in DOMAIN L : L[k].e = e /\ L[k].c = c /\ L[k].id = i}
Has(L, e) == \E k \in DOMAIN L : L[k].e = e
HasAt(L, e, c) == \E k \in DOMAIN L : L[k].e = e /\ L[k].c = c
\* The `updated` of record i in the listing of collection c the pass
\* received ("model": local, "file": remote); 0 when the listing had none.
Seen(L, e, c, i) ==
    IF At(L, e, c, i) = {} THEN 0 ELSE L[CHOOSE k \in At(L, e, c, i) : TRUE].updated
LastOf(L) == L[Len(L)]
Stopped(L) == Has(L, "stop:success") \/ Has(L, "stop:error")
\* The run of syncCollection for collection c is over.
RunOver(L, c) ==
    Stopped(L) \/ \E k \in DOMAIN L : L[k].e = "find" /\ L[k].c > c
\* The pass in slot p ends in this step with the given stop signal.
Ends(p, signal) ==
    /\ InFlight(p)
    /\ pass'[p].pc = "idle"
    /\ LastOf(log'[p]).e = signal

\* C1: every remote file that has no local model, or a local model updated
\* strictly earlier, is saved locally exactly once, with the file's data;
\* stat.statRemote is true from then on; and the run of syncCollection
\* issues no cloud.saveModel for that id.
RemoteNewerSavedLocally ==
    \A p \in Slots :
        \A k \in DOMAIN log[p] :
            LET L == log[p]
                c == L[k].c
                i == L[k].id
                f == L[k].updated
                m == Seen(L, "model", c, i)
            IN  (L[k].e = "file" /\ (m = 0 \/ m < f)) =>
                    /\ Cardinality(At(L, "upsert", c, i)) = 1
                    /\ Seen(L, "upsert", c, i) = f
                    /\ At(L, "save", c, i) = {}
                    /\ stat.statRemote

\* A finished run of syncCollection that saved one file which had no local
\* model and one which had an older local model.
RemoteNewerWitness ==
    \E p \in Slots, c \in Collections, i, j \in Ids :
        LET L == log[p]
        IN  /\ RunOver(L, c)
            /\ Seen(L, "file", c, i) # 0 /\ Seen(L, "model", c, i) = 0
            /\ Seen(L, "model", c, j) # 0
            /\ Seen(L, "model", c, j) < Seen(L, "file", c, j)
            /\ Has(L, "stop:success")

\* The case C2 is about: a local model with no remote file, or with a remote
\* file updated strictly earlier, in a run that received both listings and
\* is over.
LocalNewer(L, c, i) ==
    LET f == Seen(L, "file", c, i)
        m == Seen(L, "model", c, i)
    IN  /\ HasAt(L, "files", c)
        /\ RunOver(L, c)
        /\ m # 0 /\ (f = 0 \/ f < m)

SavedRemotelyOnce(L, c, i) ==
    /\ Cardinality(At(L, "save", c, i)) = 1
    /\ Seen(L, "save", c, i) = Seen(L, "model", c, i)
    /\ At(L, "upsert", c, i) = {}

EqualWritesNothing ==
    \A p \in Slots :
        LET L == log[p]
        IN  /\ \A k \in DOMAIN L :
                  (L[k].e = "model"
                      /\ L[k].updated = Seen(L, "file", L[k].c, L[k].id))
                  => /\ At(L, "upsert", L[k].c, L[k].id) = {}
                     /\ At(L, "save", L[k].c, L[k].id) = {}
            /\ Has(L, "start") =>
                  (stat.statRemote <=> Has(L, "upsert"))

\* A second pass in a row that met an equal pair and ended without having
\* written anything.
EqualWitness ==
    \E p \in Slots, c \in Collections, i \in Ids :
        LET L == log[p]
        IN  /\ Seen(L, "model", c, i) # 0
            /\ Seen(L, "model", c, i) = Seen(L, "file", c, i)
            /\ Has(L, "stop:success")
            /\ ~Has(L, "upsert") /\ ~Has(L, "save")
            /\ stat.interval > IntervalInit + (IntervalMax - IntervalMin) \div 5

\* C4: stat.interval always lies in [stat.intervalMin, stat.intervalMax].
IntervalWithinBounds ==
    /\ stat.intervalMin = IntervalMin
    /\ stat.intervalMax = IntervalMax
    /\ stat.intervalMin <= stat.interval
    /\ stat.interval <= stat.intervalMax

\* The interval has climbed to its maximum, and the watchdog is armed with it.
IntervalWitness ==
    /\ stat.interval = IntervalMax
    /\ \E t \in timers : t.delay = IntervalMax

Clamp(lo, hi, x) == IF x < lo THEN lo ELSE IF x > hi THEN hi ELSE x

\* C5: getInterval, called when a pass has succeeded, moves stat.interval
\* down by 0.4 * (intervalMax - intervalMin) when stat.statRemote is true and
\* up by 0.2 * (intervalMax - intervalMin) when it is false, clamps it to
\* [intervalMin, intervalMax], and the timer is armed with that value.
IntervalStep ==
    [][\A p \in Slots :
          Ends(p, "stop:success") =>
              /\ stat'.interval =
                    Clamp(IntervalMin, IntervalMax,
                          IF stat.statRemote
                          THEN stat.interval - 5200
                          ELSE stat.interval + 2600)
              /\ stat.interval = 2000 =>
                    stat'.interval = (IF stat.statRemote THEN 2000 ELSE 4600)
              /\ \E t \in timers' :
                    t.id = timeout' /\ t.delay = stat'.interval]_vars

\* A pass that saw a remote change has just ended and brought the interval
\* down, unclamped, from 9800 to 4600.
IntervalStepWitness ==
    /\ stat.interval = 4600
    /\ stat.statRemote
    /\ \E t \in timers : t.delay = 4600
    /\ \A p \in Slots : ~InFlight(p)

\* C6: when a pass ends in failure the watchdog timer is armed again.
FailureRearms ==
    [][\A p \in Slots : Ends(p, "stop:error") => timers' # {}]_vars

\* C7: once a listing fetch or a saveModelObject request of a pass is
\* rejected, the pass has ended with the stop signal 'error', right after
\* the rejection; it has issued no cloud.saveModel for that collection and
\* nothing at all for a later collection.
RejectionAbortsPass ==
    \A p \in Slots :
        LET L == log[p]
        IN  \A k \in DOMAIN L :
                L[k].e \in {"rejected:find", "rejected:cloudFind",
                            "rejected:upsert"} =>
                    /\ ~InFlight(p)
                    /\ Len(L) = k + 1
                    /\ L[k + 1].e = "stop:error"
                    /\ ~Has(L, "stop:success")
                    /\ ~HasAt(L, "save", L[k].c)
                    /\ \A j \in DOMAIN L : L[j].c <= L[k].c

\* A saveModelObject request was rejected in a collection that also holds a
\* newer local model, which the pass therefore never sent.
RejectionWitness ==
    \E p \in Slots, c \in Collections, i \in Ids :
        LET L == log[p]
        IN  /\ HasAt(L, "rejected:upsert", c)
            /\ c < Len(collectionNames)
            /\ Seen(L, "model", c, i) # 0
            /\ Seen(L, "file", c, i) < Seen(L, "model", c, i)

\* C8: after disconnect(), and until start() is called again, no timer is
\* armed (so no pass begins).
DisconnectIsTerminal ==
    halted.by = "disconnect" => timers = {}

\* C9: after stopWatch() or disconnect() was called with a timer armed and no
\* pass in flight, and until start() is called again, no timer is armed and
\* no pass is in flight.
StopWhilePendingHalts ==
    halted.at = "pending" =>
        /\ timers = {}
        /\ \A p \in Slots : ~InFlight(p)

\* disconnect() was called while the engine was waiting for its watchdog,
\* after a pass had already succeeded.
StopWhilePendingWitness ==
    /\ halted = [by |-> "disconnect", at |-> "pending"]
    /\ stat.interval > IntervalInit

\* C10: at most one pass is in flight.
AtMostOnePass ==
    Cardinality({p \in Slots : InFlight(p)}) <= 1

\* The requests of pass p that are not settled yet.
Unsettled(rs, p) == {r \in rs : r.p = p}

\* C11: within a pass the collections are taken in the order of
\* collectionNames, one at a time: what the pass has requested and received
\* is ordered by collection, and while the pass is in flight every request
\* it made for an earlier collection has resolved: none is unsettled and
\* none was rejected.
CollectionsInOrder ==
    \A p \in Slots :
        LET L == log[p]
        IN  InFlight(p) =>
                /\ L[1].e = "start"
                /\ \A j, k \in 2..Len(L) : j < k => L[j].c <= L[k].c
                /\ LastOf(L).c = pass[p].ci
                /\ \A r \in Unsettled(upserts, p) \cup Unsettled(saves, p) :
                      r.c = pass[p].ci
                /\ \A k \in DOMAIN L :
                      L[k].e \notin {"rejected:find", "rejected:cloudFind",
                                     "rejected:upsert", "rejected:save"}

\* A pass asks for the listing of the next collection after it has saved
\* two models remotely in the collection before.
CollectionsInOrderWitness ==
    \E p \in Slots, c \in Collections :
        LET L == log[p]
        IN  /\ pass[p].pc = "findLocal"
            /\ pass[p].ci = c + 1
            /\ \E i, j \in Ids :
                  /\ i # j
                  /\ At(L, "save", c, i) # {}
                  /\ At(L, "save", c, j) # {}

\* C12: a run of syncCollection issues no cloud.saveModel while a
\* saveModelObject request it issued is unsettled: while one is, the run has
\* issued no save for the collection; a run one of whose saveModelObject
\* requests was rejected (the others may still be unsettled) has issued none
\* either; and every save of a run comes after all its upserts.
UpsertsSettleBeforeSaves ==
    \A p \in Slots :
        LET L == log[p]
        IN  /\ Unsettled(upserts, p) # {} =>
                  /\ pass[p].pc = "remoteJoin"
                  /\ Unsettled(saves, p) = {}
                  /\ ~HasAt(L, "save", pass[p].ci)
            /\ \A k \in DOMAIN L :
                  L[k].e = "rejected:upsert" => ~HasAt(L, "save", L[k].c)
            /\ \A j, k \in DOMAIN L :
                  (L[j].e = "save" /\ L[k].e = "upsert" /\ L[j].c = L[k].c)
                      => k < j

\* A run has issued a save after the saveModelObject request it had issued
\* for another record resolved.
UpsertsSettleBeforeSavesWitness ==
    \E p \in Slots, i \in Ids :
        LET L == log[p]
            c == pass[p].ci
        IN  /\ pass[p].pc = "localJoin"
            /\ Unsettled(saves, p) # {}
            /\ At(L, "upsert", c, i) # {}
            /\ \E j \in Ids : j # i /\ At(L, "save", c, j) # {}

\* C13: at most one watchdog timer is armed, and it is the one this.timeout
\* holds, so that the next start() or startWatch() cancels it: however often
\* start() is called while a timer is pending, one timer is left to fire.
AtMostOneTimer ==
    /\ Cardinality(timers) <= 1
    /\ \A t \in timers : t.id = timeout

\* start() has been called after a pass had succeeded and re-armed the
\* watchdog, and start's timer is the only one armed.
AtMostOneTimerWitness ==
    /\ timers = {[id |-> timeout, delay |-> StartDelay]}
    /\ stat.interval > IntervalInit
    /\ halted = NotHalted
    /\ \A p \in Slots : ~InFlight(p) /\ Has(log[p], "stop:success")

\* C14: when init() was not called, is awaiting checkAuth(), or found that
\* checkAuth() resolved to false or rejected, no timer is armed, no handle is
\* held, no pass is or was in flight and nothing was requested: init() alone
\* never starts anything but through start() after checkAuth() gave true.
AuthGatesStart ==
    initPc # "done" =>
        /\ timers = {}
        /\ timeout = 0
        /\ \A p \in Slots : ~InFlight(p) /\ log[p] = <<>>
        /\ upserts = {} /\ saves = {}
        /\ stat.interval = IntervalInit

\* init() has returned after a failed authentication, with records on both
\* sides waiting to be synchronised.
AuthGatesStartWitness ==
    /\ initPc = "failed"
    /\ localStore # remoteStore

\* C15: the interval a successful pass re-arms the watchdog with is moved
\* down (before clamping) exactly when that very pass has issued a
\* saveModelObject request, and up otherwise.
IntervalFollowsOwnPass ==
    [][\A p \in Slots :
          Ends(p, "stop:success") =>
              stat'.interval =
                  Clamp(IntervalMin, IntervalMax,
                        IF Has(log'[p], "upsert")
                        THEN stat.interval - 5200
                        ELSE stat.interval + 2600)]_vars

\* C16: when a pass ends with an error, stat.interval is moved up by
\* 0.2 * (intervalMax - intervalMin), clamped to intervalMax.
FailureBacksOff ==
    [][\A p \in Slots :
          Ends(p, "stop:error") =>
              stat'.interval =
                  Clamp(IntervalMin, IntervalMax, stat.interval + 2600)]_vars

\* The pass in slot p has ended with 'success' in the step before.
JustSucceeded(p) ==
    /\ ~InFlight(p)
    /\ Len(log[p]) > 1
    /\ LastOf(log[p]).e = "stop:success"

\* The timer has just fired: no timer is pending and the pass its callback
\* began has requested the first listing.
JustBegun ==
    /\ timers = {}
    /\ \E q \in Slots :
          /\ pass[q].pc = "findLocal"
          /\ pass[q].ci = 1
          /\ Len(log[q]) = 2

\* C17: a pass that has ended with 'success' has left a timer armed, and
\* whenever a timer is armed (by start() or by a pass that succeeded) it
\* fires later on and a pass begins.
PassesRecur ==
    /\ \A p \in Slots : [](JustSucceeded(p) => timers # {})
    /\ (timers # {}) ~> JustBegun

\* A pass has just ended with 'success' at the longest interval: it is the
\* fifth in a row, at least.
PassesRecurWitness ==
    \E p \in Slots : JustSucceeded(p) /\ stat.interval = IntervalMax

Rejections ==
    {"rejected:find", "rejected:cloudFind", "rejected:upsert", "rejected:save"}
StopSignals == {"stop:success", "stop:error"}

\* The pass in slot p waits for a request that is unsettled.
Awaiting(p) ==
    \/ pass[p].pc \in {"findLocal", "findRemote"}
    \/ pass[p].pc = "remoteJoin" /\ Unsettled(upserts, p) # {}
    \/ pass[p].pc = "localJoin" /\ Unsettled(saves, p) # {}

\* C18: what a pass has emitted begins with its one 'start' signal, before
\* any request; a 'stop' signal is the last thing it emits and there is one
\* exactly when the pass is over; it is 'success' when the listings of all
\* collections arrived and nothing was rejected, 'error' right after a
\* rejection; and a pass in flight always waits for a request, so that it
\* reaches its 'stop' once its requests settle.  (The signals of a pass that
\* ended more than one step ago are kept as the 'stop' alone.)
SignalsBracketPass ==
    \A p \in Slots :
        LET L == log[p]
            n == Len(L)
        IN  /\ InFlight(p) => Awaiting(p) /\ n > 0
            /\ n = 1 => L[1].e \in StopSignals \/ InFlight(p)
            /\ n > 0 /\ L[1].e \in StopSignals => ~InFlight(p) /\ n = 1
            /\ n > 1 =>
                  /\ L[1].e = "start"
                  /\ L[2].e = "find"
                  /\ \A k \in 2..n : L[k].e # "start"
                  /\ \A k \in 1..(n - 1) : L[k].e \notin StopSignals
                  /\ InFlight(p) <=> L[n].e \notin StopSignals
                  /\ L[n].e = "stop:success" <=>
                        /\ ~InFlight(p)
                        /\ \A k \in 1..n : L[k].e \notin Rejections
                        /\ \A c \in Collections : HasAt(L, "files", c)
                  /\ L[n].e = "stop:error" <=> L[n - 1].e \in Rejections
                  /\ \A k \in 1..(n - 2) : L[k].e \notin Rejections

\* A pass has ended with 'error' because the Cloud Adapter rejected a save.
SignalsBracketPassWitness ==
    \E p \in Slots :
        /\ Has(log[p], "rejected:save")
        /\ LastOf(log[p]).e = "stop:error"

\* The run of syncCollection for collection c is over and nothing in it was
\* rejected; L holds the two listings it received.
RunSucceeded(L, c) ==
    /\ Has(L, "start")
    /\ HasAt(L, "files", c)
    /\ \/ Has(L, "stop:success")
       \/ \E k \in DOMAIN L : L[k].e = "find" /\ L[k].c > c

\* C19: with the stores applying each write as sent and nobody else writing,
\* after a run of syncCollection that succeeded both sides hold, for every
\* id, the version with the greater `updated` of the two the run was given
\* (no record where neither side had one); and from a state in which both
\* sides hold the same, no step issues a write.
LastWriteWinsConverges ==
    /\ [](\A p \in Slots, c \in Collections :
            RunSucceeded(log[p], c) =>
                \A i \in Ids :
                    /\ localStore[c][i] = remoteStore[c][i]
                    /\ localStore[c][i] =
                          MaxOf(Seen(log[p], "model", c, i),
                                Seen(log[p], "file", c, i)))
    /\ [][localStore = remoteStore =>
            upserts' \subseteq upserts /\ saves' \subseteq saves]_vars

\* A pass has succeeded after saving one record locally and another one
\* remotely; both sides now hold the two records, and the watchdog is armed
\* for the pass that follows.
LastWriteWinsWitness ==
    \E p \in Slots, c \in Collections, i, j \in Ids :
        LET L == log[p]
        IN  /\ RunSucceeded(L, c)
            /\ Has(L, "stop:success")
            /\ At(L, "upsert", c, i) # {}
            /\ At(L, "save", c, j) # {}
            /\ localStore[c][i] # 0 /\ localStore[c][j] # 0
            /\ localStore = remoteStore
            /\ timers # {}

\* Some pass ends with 'success' in this step.
SomePassSucceeds == \E p \in Slots : Ends(p, "stop:success")

\* C20: stat.interval is always one of 2000, 4600, 7200, 9800, 12400, 15000;
\* it changes only in a step in which a pass succeeds and re-arms the
\* watchdog (so never in start(), stopWatch() or disconnect()); such a step
\* moves it one value up, or leaves it at 15000, when stat.statRemote is
\* false, and moves it down only when stat.statRemote is true.
IntervalOnGrid ==
    /\ [](stat.interval \in {2000, 4600, 7200, 9800, 12400, 15000})
    /\ [][stat'.interval # stat.interval => SomePassSucceeds]_vars
    /\ [][stat'.interval < stat.interval => stat.statRemote]_vars
    /\ [][SomePassSucceeds /\ ~stat.statRemote =>
            stat'.interval = (IF stat.interval = 15000 THEN 15000
                              ELSE stat.interval + 2600)]_vars

\* The interval had climbed to 15000 and the last pass, which saw a remote
\* change, has brought it down to 9800.
IntervalOnGridWitness ==
    /\ stat.interval = 9800
    /\ stat.statRemote
    /\ timers = {[id |-> timeout, delay |-> 9800]}
    /\ \A p \in Slots :
          /\ ~InFlight(p)
          /\ log[p] = <<>> \/ LastOf(log[p]).e = "stop:success"

====
